---- MODULE Spec2Model ----
(***************************************************************************)
(* Model of libkern's intrusive chained hash table with a bloom prefilter  *)
(* (include/htable.h).  The table, the entries' embedded hlist nodes and   *)
(* the traversal macros are modelled at pointer level: every bucket head   *)
(* holds a `first' pointer, every entry a `next' pointer and a `pprev'     *)
(* back reference, exactly as the hlist the header builds on.              *)
(***************************************************************************)
EXTENDS Integers, Sequences, FiniteSets, TLC

(* ---------------------------------------------------------------- bounds *)
NumEntries == 3
(* caller-owned entry records; 0 is the null pointer *)
Entries == 1..NumEntries
NULL == 0

(* keys are byte strings; the caller passes the pointer and the length.     *)
(* Entries are inserted under the keys of AddKeys; lookups and deletions   *)
(* also probe a key that is never inserted                                 *)
AddKeys == { <<1>>, <<1, 2>> }
Keys == AddKeys \cup { <<2>> }
NoKey == <<>>
(* 32-bit hash values the hash function may produce for the keys above:    *)
(* 1 and 257 agree on the bloom bit and on the bucket for every size used, *)
(* 1 and 3 differ in the bloom bit and share a bucket only for size 10     *)
HashVals == { 1, 3, 257 }
(* size hints handed to htable_init_n *)
InitHints == { 0, 3 }
(* the hash functions a run may have: the hashes of <<1>> and of the probe  *)
(* key differ in the bloom bit and share a bucket only for size 10; the    *)
(* second inserted key either shares bucket and bloom bit with <<1>> under *)
(* another hash, or has the very hash of the probe key                     *)
HashFuns ==
  { f \in [Keys -> HashVals] :
      f[<<1>>] = 1 /\ f[<<2>>] = 3 /\ f[<<1, 2>>] \in {3, 257} }

(* ------------------------------------------------------------- constants *)
BLOOM_BIT_LENGTH == 8
BITS_PER_BYTE == 8
HASH_NUM_BUCKETS == 16
HASH_BUCKET_THRESH == 10

VARIABLES
  jhash_tab,    \* the hash function jhash(., ., 0), fixed for a run
  size,         \* table->size
  bucks,        \* table->bucks[i].first
  count,        \* table->count
  bitvect,      \* table->bitvect, an array of bytes
  node_next,    \* entry->node.next
  node_pprev,   \* entry->node.pprev
  e_key,        \* entry->key (the bytes it points to)
  e_len,        \* entry->len
  e_hash,       \* entry->hash
  order,        \* history: the entries the calls left linked, oldest insert first
  last,         \* history: the last call, its arguments and its return value
  pc,           \* position of the caller: idle, inside a traversal body, done
  it_kind,      \* which traversal macro is running
  it_i,         \* the macro's bucket index i
  it_pos,       \* the macro's cursor pos
  it_n,         \* the safe macro's temporary n
  visited,      \* history: entries yielded by the running traversal
  it_start,     \* history: entries linked when the traversal started
  it_all        \* history: every body so far called htable_del_entry(pos)

tvars == <<size, bucks, count, bitvect, node_next, node_pprev, e_key, e_len,
          e_hash>>
ivars == <<pc, it_kind, it_i, it_pos, it_n, visited, it_start, it_all>>
vars == <<jhash_tab, size, bucks, count, bitvect, node_next, node_pprev,
          e_key, e_len, e_hash, order, last, pc, it_kind, it_i, it_pos, it_n,
          visited, it_start, it_all>>

(* ----------------------------------------------------- integer bit tricks *)
RECURSIVE BitAnd(_, _)
BitAnd(a, b) ==
  IF a = 0 \/ b = 0 THEN 0
  ELSE (a % 2) * (b % 2) + 2 * BitAnd(a \div 2, b \div 2)

RECURSIVE BitOr(_, _)
BitOr(a, b) ==
  IF a = 0 THEN b
  ELSE IF b = 0 THEN a
  ELSE (IF a % 2 = 1 \/ b % 2 = 1 THEN 1 ELSE 0) + 2 * BitOr(a \div 2, b \div 2)

(* ----------------------------------------------------------- the memory *)
(* the table and the entries as one value, so that the functions of the    *)
(* header can be written as operators from memory to memory                *)
Mem ==
  [size |-> size, bucks |-> bucks, count |-> count, bitvect |-> bitvect,
   next |-> node_next, pprev |-> node_pprev, key |-> e_key, len |-> e_len,
   hash |-> e_hash]

NullRef == <<"null", 0>>
HeadRef(i) == <<"head", i>>
NodeRef(e) == <<"node", e>>

(* ------------------------------------------------------------ hlist.h *)
INIT_HLIST_NODE(M, n) ==
  [M EXCEPT !.next[n] = NULL, !.pprev[n] = NullRef]

hlist_unhashed(M, n) == M.pprev[n] = NullRef

hlist_empty(M, i) == M.bucks[i] = NULL

hlist_add_head(M, n, i) ==
  LET first == M.bucks[i]
      M1 == [M EXCEPT !.next[n] = first]
      M2 == IF first # NULL THEN [M1 EXCEPT !.pprev[first] = NodeRef(n)] ELSE M1
      M3 == [M2 EXCEPT !.bucks[i] = n]
  IN  [M3 EXCEPT !.pprev[n] = HeadRef(i)]

hlist_del(M, n) ==
  LET next == M.next[n]
      pp == M.pprev[n]
      M1 == IF pp[1] = "head" THEN [M EXCEPT !.bucks[pp[2]] = next]
            ELSE [M EXCEPT !.next[pp[2]] = next]
  IN  IF next # NULL THEN [M1 EXCEPT !.pprev[next] = pp] ELSE M1

hlist_del_init(M, n) ==
  IF ~hlist_unhashed(M, n) THEN INIT_HLIST_NODE(hlist_del(M, n), n) ELSE M

(* ------------------------------------------------------------- jhash.h *)
jhash(key, len, initval) == jhash_tab[SubSeq(key, 1, len)]

memcmp(a, b, n) == IF SubSeq(a, 1, n) = SubSeq(b, 1, n) THEN 0 ELSE 1

(* ------------------------------------------------------------ htable.h *)
bloom_init == [b \in 0..((2^BLOOM_BIT_LENGTH) \div BITS_PER_BYTE - 1) |-> 0]

bloom_set_bit(bits, idx) ==
  [bits EXCEPT ![idx \div BITS_PER_BYTE] = BitOr(@, 2^(idx % BITS_PER_BYTE))]

bloom_test_bit(bits, idx) ==
  BitAnd(bits[idx \div BITS_PER_BYTE], 2^(idx % BITS_PER_BYTE))

(* variant: the mask is the bit count itself, not the all-ones mask below it *)
bloom_set_wrong_mask(bits, hash) ==
  bloom_set_bit(bits, BitAnd(hash, 2^BLOOM_BIT_LENGTH))

bloom_set(bits, hash) ==
  bloom_set_bit(bits, BitAnd(hash, 2^BLOOM_BIT_LENGTH - 1))

(* variant: the test looks at the bits above the lowest one *)
bloom_test_shifted(bits, hash) ==
  bloom_test_bit(bits, BitAnd(hash \div 2, 2^BLOOM_BIT_LENGTH - 1))

bloom_test(bits, hash) ==
  bloom_test_bit(bits, BitAnd(hash, 2^BLOOM_BIT_LENGTH - 1))

(* variant: the bucket is the remainder of the hash by the bucket count *)
htable_which_bucket_modulo(M, hash) == hash % M.size

htable_which_bucket(M, hash) == BitAnd(hash, M.size - 1)

(* sets node, key and len, and leaves entry->hash as it is *)
INIT_HTABLE_ENTRY(M, entry, key, len) ==
  LET M1 == INIT_HLIST_NODE(M, entry)
  IN  [M1 EXCEPT !.key[entry] = key, !.len[entry] = len]

htable_init ==
  LET sz == HASH_NUM_BUCKETS
  IN  [size |-> sz, bucks |-> [i \in 0..(sz - 1) |-> NULL], count |-> 0,
       bitvect |-> bloom_init]

(* variant: the hint is rounded up to a power of two *)
RECURSIVE RoundUpPow2(_, _)
RoundUpPow2(n, p) == IF p >= n THEN p ELSE RoundUpPow2(n, 2 * p)

htable_init_n_rounded(n) ==
  LET sz == RoundUpPow2(IF n > 0 THEN n ELSE HASH_BUCKET_THRESH, 1)
  IN  [size |-> sz, bucks |-> [i \in 0..(sz - 1) |-> NULL], count |-> 0,
       bitvect |-> bloom_init]

htable_init_n(n) ==
  LET sz == IF n > 0 THEN n ELSE HASH_BUCKET_THRESH
  IN  [size |-> sz, bucks |-> [i \in 0..(sz - 1) |-> NULL], count |-> 0,
       bitvect |-> bloom_init]

(* variant: the bucket is picked by remainder although lookups use the mask *)
htable_add_modulo(M, entry, key, len) ==
  LET M1 == INIT_HTABLE_ENTRY(M, entry, key, len)
      hash == jhash(key, len, 0)
      buck == hash % M1.size
      M2 == hlist_add_head(M1, entry, buck)
      M3 == [M2 EXCEPT !.bitvect = bloom_set(@, hash)]
  IN  [M3 EXCEPT !.count = @ + 1]

(* variant: the bucket array is doubled when an entry joins a used bucket *)
htable_add_expand(M, entry, key, len) ==
  LET M1 == INIT_HTABLE_ENTRY(M, entry, key, len)
      hash == jhash(key, len, 0)
      buck == htable_which_bucket(M1, hash)
      grow == M1.bucks[buck] # NULL
      M2 == hlist_add_head(M1, entry, buck)
      M3 == [M2 EXCEPT !.bitvect = bloom_set(@, hash)]
      M4 == [M3 EXCEPT !.count = @ + 1]
  IN  IF grow
      THEN [M4 EXCEPT !.size = 2 * @,
                      !.bucks = [i \in 0..(2 * M4.size - 1) |->
                                   IF i < M4.size THEN M4.bucks[i] ELSE NULL]]
      ELSE M4

(* variant: the entry is linked behind the head of a chain that has one *)
htable_add_behind(M, entry, key, len) ==
  LET M1 == INIT_HTABLE_ENTRY(M, entry, key, len)
      hash == jhash(key, len, 0)
      buck == htable_which_bucket(M1, hash)
      first == M1.bucks[buck]
      after == IF first = NULL THEN NULL ELSE M1.next[first]
      M2 == IF first = NULL THEN hlist_add_head(M1, entry, buck)
            ELSE LET A == [M1 EXCEPT !.next[entry] = after,
                                     !.pprev[entry] = NodeRef(first),
                                     !.next[first] = entry]
                 IN  IF after # NULL
                     THEN [A EXCEPT !.pprev[after] = NodeRef(entry)]
                     ELSE A
      M3 == [M2 EXCEPT !.bitvect = bloom_set(@, hash)]
  IN  [M3 EXCEPT !.count = @ + 1]

(* variant: an entry that is still in a chain is taken out of it first *)
htable_add_unlink_first(M, entry, key, len) ==
  LET M0 == hlist_del_init(M, entry)
      M1 == INIT_HTABLE_ENTRY(M0, entry, key, len)
      hash == jhash(key, len, 0)
      buck == htable_which_bucket(M1, hash)
      M2 == hlist_add_head(M1, entry, buck)
      M3 == [M2 EXCEPT !.bitvect = bloom_set(@, hash)]
  IN  [M3 EXCEPT !.count = @ + 1]

htable_add(M, entry, key, len) ==
  LET M1 == INIT_HTABLE_ENTRY(M, entry, key, len)
      hash == jhash(key, len, 0)
      buck == htable_which_bucket(M1, hash)
      M2 == hlist_add_head(M1, entry, buck)
      M3 == [M2 EXCEPT !.bitvect = bloom_set(@, hash)]
  IN  [M3 EXCEPT !.count = @ + 1]

(* variant: the scan does not stop at the first match, the last one wins *)
RECURSIVE hlist_for_each_entry_last(_, _, _, _)
hlist_for_each_entry_last(M, e, key, len) ==
  IF e = NULL THEN NULL
  ELSE LET rest == hlist_for_each_entry_last(M, M.next[e], key, len)
       IN  IF rest # NULL THEN rest
           ELSE IF M.len[e] = len /\ memcmp(M.key[e], key, len) = 0 THEN e
           ELSE NULL

(* hlist_for_each_entry over one chain, as htable_find uses it *)
RECURSIVE hlist_for_each_entry(_, _, _, _)
hlist_for_each_entry(M, e, key, len) ==
  IF e = NULL THEN NULL
  ELSE IF M.len[e] = len /\ memcmp(M.key[e], key, len) = 0 THEN e
  ELSE hlist_for_each_entry(M, M.next[e], key, len)

htable_find(M, key, len) ==
  LET hash == jhash(key, len, 0)
      buck == htable_which_bucket(M, hash)
  IN  IF bloom_test(M.bitvect, hash) # 0
      THEN IF ~hlist_empty(M, buck)
           THEN hlist_for_each_entry(M, M.bucks[buck], key, len)
           ELSE NULL
      ELSE NULL

(* variant: the entry is unlinked but count is left alone *)
htable_del_key_keep_count(M, key, len) ==
  LET entry == htable_find(M, key, len)
  IN  IF entry # NULL
      THEN [mem |-> hlist_del_init(M, entry), ret |-> entry]
      ELSE [mem |-> M, ret |-> NULL]

(* variant: count is decremented but the entry stays in its chain *)
htable_del_key_keep_link(M, key, len) ==
  LET entry == htable_find(M, key, len)
  IN  IF entry # NULL
      THEN [mem |-> [M EXCEPT !.count = @ - 1], ret |-> entry]
      ELSE [mem |-> M, ret |-> NULL]

(* variant: the entry is unlinked with hlist_del, its node keeps its links *)
htable_del_key_no_init(M, key, len) ==
  LET entry == htable_find(M, key, len)
  IN  IF entry # NULL
      THEN [mem |-> [hlist_del(M, entry) EXCEPT !.count = @ - 1],
            ret |-> entry]
      ELSE [mem |-> M, ret |-> NULL]

(* variant: count is decremented whether or not the key was found *)
htable_del_key_always_count(M, key, len) ==
  LET entry == htable_find(M, key, len)
  IN  IF entry # NULL
      THEN [mem |-> [hlist_del_init(M, entry) EXCEPT !.count = @ - 1],
            ret |-> entry]
      ELSE [mem |-> [M EXCEPT !.count = @ - 1], ret |-> NULL]

(* variant: a deletion also clears the bloom bit of the key's hash *)
htable_del_key_clear_bloom(M, key, len) ==
  LET entry == htable_find(M, key, len)
      idx == BitAnd(jhash(key, len, 0), 2^BLOOM_BIT_LENGTH - 1)
      bit == 2^(idx % BITS_PER_BYTE)
  IN  IF entry # NULL
      THEN [mem |-> [hlist_del_init(M, entry) EXCEPT
                       !.count = @ - 1,
                       !.bitvect[idx \div BITS_PER_BYTE] = @ - BitAnd(@, bit)],
            ret |-> entry]
      ELSE [mem |-> M, ret |-> NULL]

htable_del_key(M, key, len) ==
  LET entry == htable_find(M, key, len)
  IN  IF entry # NULL
      THEN [mem |-> [hlist_del_init(M, entry) EXCEPT !.count = @ - 1],
            ret |-> entry]
      ELSE [mem |-> M, ret |-> NULL]

(* variant: the given node itself is unlinked, whatever its key matches *)
htable_del_entry_by_pointer(M, entry) ==
  IF ~hlist_unhashed(M, entry)
  THEN [mem |-> [hlist_del_init(M, entry) EXCEPT !.count = @ - 1],
        ret |-> entry]
  ELSE [mem |-> M, ret |-> NULL]

htable_del_entry(M, entry) == htable_del_key(M, M.key[entry], M.len[entry])

(* ------------------------------------------------------ traversal macros *)
(* the control part of htable_for_each / htable_for_each_safe: from the    *)
(* inner loop's test with cursor pos in bucket i, run to the next entry    *)
(* the macro hands to its body, or to the end of the outer loop            *)
(* variant: the outer loop stops one bucket early *)
RECURSIVE for_each_ctl_short(_, _, _)
for_each_ctl_short(M, i, pos) ==
  IF pos # NULL THEN [done |-> FALSE, i |-> i, pos |-> pos]
  ELSE IF i + 1 < M.size - 1 THEN for_each_ctl_short(M, i + 1, M.bucks[i + 1])
  ELSE [done |-> TRUE, i |-> i + 1, pos |-> NULL]

RECURSIVE for_each_ctl(_, _, _)
for_each_ctl(M, i, pos) ==
  IF pos # NULL THEN [done |-> FALSE, i |-> i, pos |-> pos]
  ELSE IF i + 1 < M.size THEN for_each_ctl(M, i + 1, M.bucks[i + 1])
  ELSE [done |-> TRUE, i |-> i + 1, pos |-> NULL]

(* variant: the outer loop starts at bucket 1 *)
for_each_begin_at_one(M) ==
  IF 1 < M.size THEN for_each_ctl(M, 1, M.bucks[1])
  ELSE [done |-> TRUE, i |-> 1, pos |-> NULL]

(* entering the macro: i = 0, pos = bucks[0].first *)
for_each_begin(M) ==
  IF 0 < M.size THEN for_each_ctl(M, 0, M.bucks[0])
  ELSE [done |-> TRUE, i |-> 0, pos |-> NULL]

(* htable_for_each after a body: pos = pos->node.next, read after the body *)
for_each_step(M, i, pos) == for_each_ctl(M, i, M.next[pos])

(* variant: after a body the safe macro starts over at the bucket's head *)
for_each_safe_step_restart(M, i, pos, n) == for_each_ctl(M, i, M.bucks[i])

(* variant: the safe macro steps through pos->node.next after the body *)
for_each_safe_step_reread(M, i, pos, n) == for_each_ctl(M, i, M.next[pos])

(* htable_for_each_safe after a body: pos = n, the pointer captured by the *)
(* loop test before the body ran                                           *)
for_each_safe_step(M, i, pos, n) == for_each_ctl(M, i, n)

(* htable_for_each run to completion on a table nobody changes *)
RECURSIVE for_each_run(_, _, _)
for_each_run(M, c, acc) ==
  IF c.done THEN acc
  ELSE for_each_run(M, for_each_step(M, c.i, c.pos), Append(acc, c.pos))

htable_for_each(M) == for_each_run(M, for_each_begin(M), <<>>)

(* ------------------------------------------------------------- actions *)
Commit(M) ==
  /\ size' = M.size
  /\ bucks' = M.bucks
  /\ count' = M.count
  /\ bitvect' = M.bitvect
  /\ node_next' = M.next
  /\ node_pprev' = M.pprev
  /\ e_key' = M.key
  /\ e_len' = M.len
  /\ e_hash' = M.hash

Remove(s, x) == SelectSeq(s, LAMBDA y : y # x)

Ready == pc \in {"idle", "done"}

IterReset ==
  /\ pc' = "idle"
  /\ it_kind' = "none"
  /\ it_i' = 0
  /\ it_pos' = NULL
  /\ it_n' = NULL
  /\ visited' = <<>>
  /\ it_start' = {}
  /\ it_all' = TRUE

Call(op, e, k, r) == [op |-> op, ent |-> e, key |-> k, ret |-> r]

InitTables ==
  {htable_init} \cup {htable_init_n(n) : n \in InitHints}

(* what the caller's memory may hold in the hash field of an entry record  *)
(* that nobody has written yet                                             *)
HashGarbage == {0, 1}

(* the state after construction, but for the entries' hash fields *)
InitState ==
  /\ jhash_tab \in HashFuns
  /\ \E T \in InitTables :
       /\ size = T.size
       /\ bucks = T.bucks
       /\ count = T.count
       /\ bitvect = T.bitvect
  /\ node_next = [e \in Entries |-> NULL]
  /\ node_pprev = [e \in Entries |-> NullRef]
  /\ e_key = [e \in Entries |-> NoKey]
  /\ e_len = [e \in Entries |-> 0]
  /\ order = <<>>
  /\ last = Call("init", NULL, NoKey, NULL)
  /\ pc = "idle"
  /\ it_kind = "none"
  /\ it_i = 0
  /\ it_pos = NULL
  /\ it_n = NULL
  /\ visited = <<>>
  /\ it_start = {}
  /\ it_all = TRUE

(* no function of the header reads entry->hash: the runs that do not look  *)
(* at the field start from zero-filled entry records                       *)
Init == InitState /\ e_hash = [e \in Entries |-> 0]

(* the runs that look at the field start from any content of it *)
InitHash == InitState /\ e_hash \in [Entries -> HashGarbage]

(* htable_add of an entry that is in no chain, which is what the header's  *)
(* callers must hand in; count is a size_t that the bounded runs never     *)
(* wrap, so it is kept as a plain integer                                  *)
Insert(e, k) ==
  /\ Ready
  /\ hlist_unhashed(Mem, e)
  /\ Commit(htable_add(Mem, e, k, Len(k)))
  /\ order' = Append(order, e)
  /\ last' = Call("add", e, k, NULL)
  /\ IterReset
  /\ UNCHANGED jhash_tab

Find(k) ==
  /\ Ready
  /\ last' = Call("find", NULL, k, htable_find(Mem, k, Len(k)))
  /\ IterReset
  /\ UNCHANGED <<jhash_tab, tvars, order>>

DelKey(k) ==
  /\ Ready
  /\ LET r == htable_del_key(Mem, k, Len(k))
     IN  /\ Commit(r.mem)
         /\ order' = Remove(order, r.ret)
         /\ last' = Call("del_key", NULL, k, r.ret)
  /\ IterReset
  /\ UNCHANGED jhash_tab

(* the entry must have been initialised by an earlier htable_add *)
DelEntry(e) ==
  /\ Ready
  /\ e_key[e] # NoKey
  /\ LET r == htable_del_entry(Mem, e)
     IN  /\ Commit(r.mem)
         /\ order' = Remove(order, r.ret)
         /\ last' = Call("del_entry", e, e_key[e], r.ret)
  /\ IterReset
  /\ UNCHANGED jhash_tab

Linked == {e \in Entries : ~hlist_unhashed(Mem, e)}

(* entering htable_for_each (plain) or htable_for_each_safe (safe) *)
IterBegin(kind) ==
  /\ Ready
  /\ LET c == for_each_begin(Mem)
     IN  /\ pc' = IF c.done THEN "done" ELSE "body"
         /\ it_i' = c.i
         /\ it_pos' = c.pos
         /\ it_n' = IF kind = "safe" /\ ~c.done THEN node_next[c.pos] ELSE NULL
  /\ it_kind' = kind
  /\ visited' = <<>>
  /\ it_start' = Linked
  /\ it_all' = TRUE
  /\ last' = Call("for_each", NULL, NoKey, NULL)
  /\ UNCHANGED <<jhash_tab, tvars, order>>

(* one body of htable_for_each, which must leave the table alone, followed *)
(* by the macro's step pos = pos->node.next and its loop tests             *)
PlainBody ==
  /\ pc = "body"
  /\ it_kind = "plain"
  /\ LET c == for_each_step(Mem, it_i, it_pos)
     IN  /\ pc' = IF c.done THEN "done" ELSE "body"
         /\ it_i' = c.i
         /\ it_pos' = c.pos
  /\ visited' = Append(visited, it_pos)
  /\ last' = Call("body", it_pos, NoKey, NULL)
  /\ UNCHANGED <<jhash_tab, tvars, order, it_kind, it_n, it_start, it_all>>

(* one body of htable_for_each_safe, in which the caller may delete the    *)
(* current entry with htable_del_entry, followed by pos = n and the tests  *)
(* (which capture the next n)                                              *)
SafeBody(del) ==
  /\ pc = "body"
  /\ it_kind = "safe"
  /\ LET r == IF del THEN htable_del_entry(Mem, it_pos)
              ELSE [mem |-> Mem, ret |-> NULL]
         c == for_each_safe_step(r.mem, it_i, it_pos, it_n)
     IN  /\ Commit(r.mem)
         /\ order' = Remove(order, r.ret)
         /\ last' = Call(IF del THEN "body_del" ELSE "body", it_pos,
                         e_key[it_pos], r.ret)
         /\ pc' = IF c.done THEN "done" ELSE "body"
         /\ it_i' = c.i
         /\ it_pos' = c.pos
         /\ it_n' = IF c.done THEN NULL ELSE r.mem.next[c.pos]
  /\ visited' = Append(visited, it_pos)
  /\ it_all' = (it_all /\ del)
  /\ UNCHANGED <<jhash_tab, it_kind, it_start>>

(* the table's operations *)
Next ==
  \/ \E e \in Entries, k \in AddKeys : Insert(e, k)
  \/ \E k \in Keys : Find(k)
  \/ \E k \in Keys : DelKey(k)
  \/ \E e \in Entries : DelEntry(e)

Spec == Init /\ [][Next]_vars

(* the table's updates together with the two traversal macros *)
NextIter ==
  \/ \E e \in Entries, k \in AddKeys : Insert(e, k)
  \/ \E k \in Keys : DelKey(k)
  \/ \E e \in Entries : DelEntry(e)
  \/ \E kind \in {"plain", "safe"} : IterBegin(kind)
  \/ PlainBody
  \/ \E del \in BOOLEAN : SafeBody(del)

SpecIter == Init /\ [][NextIter]_vars

(* the table's operations on entry records of arbitrary initial content *)
SpecHash == InitHash /\ [][Next]_vars

(* every operation of the header: the table's calls and the traversals *)
SpecAll == Init /\ [][Next \/ NextIter]_vars

(* the traversal macros are plain for loops: a body that has been entered  *)
(* returns and the loop goes on to its next test                           *)
SpecIterFair ==
  SpecIter /\ WF_vars(PlainBody) /\ WF_vars(\E del \in BOOLEAN : SafeBody(del))

(* the chain hanging off bucket i, followed for at most fuel nodes *)
RECURSIVE ChainFrom(_, _)
ChainFrom(e, fuel) ==
  IF e = NULL \/ fuel = 0 THEN <<>>
  ELSE <<e>> \o ChainFrom(node_next[e], fuel - 1)

Chain(i) == ChainFrom(bucks[i], NumEntries + 1)

(* how often entry e occurs in the chain of bucket i *)
Occurs(e, i) == Cardinality({j \in 1..Len(Chain(i)) : Chain(i)[j] = e})

(* the order the header promises: buckets by index and, within a bucket,   *)
(* the entries the calls left linked there, latest insert first            *)
BucketOf(e) == BitAnd(jhash(e_key[e], e_len[e], 0), size - 1)

Reverse(s) == [j \in 1..Len(s) |-> s[Len(s) + 1 - j]]

RECURSIVE OrderFrom(_)
OrderFrom(i) ==
  IF i >= size THEN <<>>
  ELSE Reverse(SelectSeq(order, LAMBDA e : BucketOf(e) = i)) \o OrderFrom(i + 1)

(* lookup without the bloom filter: the first entry in the chain of the    *)
(* key's bucket that has the key                                           *)
RefLookup(k) ==
  LET c == SelectSeq(Chain(BitAnd(jhash(k, Len(k), 0), size - 1)),
                     LAMBDA e : e_len[e] = Len(k) /\ e_key[e] = k)
  IN  IF c = <<>> THEN NULL ELSE c[1]

(* hash values tried against the bucket mask: every bit pattern below the  *)
(* largest bucket count and one bit above it                               *)
MaxProbeHash == 31
ProbeHashes == 0..MaxProbeHash

IsPowerOfTwo(n) == \E j \in 0..10 : n = 2^j

(* ---------------------------------------------------- derived notions *)
(* entries that are in a chain, read off the nodes themselves *)
LinkedWithKey(k) ==
  {e \in Entries : ~hlist_unhashed(Mem, e) /\ e_len[e] = Len(k) /\ e_key[e] = k}

(* the entry inserted last among those the calls left linked under key k *)
KeyOrder(k) == SelectSeq(order, LAMBDA e : e_key[e] = k)
Newest(k) == IF KeyOrder(k) = <<>> THEN NULL ELSE KeyOrder(k)[Len(KeyOrder(k))]

SeqSet(s) == {s[j] : j \in 1..Len(s)}
NoRepeat(s) == \A a, b \in 1..Len(s) : a # b => s[a] # s[b]

TypeOK ==
  /\ count \in 0..NumEntries
  /\ SeqSet(order) = Linked
  /\ NoRepeat(order)

(* ------------------------------------------------------------ properties *)

(* C1: right after htable_add(table, e, k) of an unlinked entry, on a table *)
(* of any bucket count, htable_find(table, k) is never not-found: it is a  *)
(* linked entry whose key equals k, and it is e itself unless another      *)
(* linked entry carries the same key.                                      *)
C1_RoundTrip ==
  last.op = "add" =>
    LET r == htable_find(Mem, last.key, Len(last.key))
    IN  /\ r # NULL
        /\ r \in LinkedWithKey(last.key)
        /\ (LinkedWithKey(last.key) = {last.ent} => r = last.ent)

(* an insert into a table whose bucket count is no power of two, next to   *)
(* other linked entries                                                    *)
C1_Witness ==
  /\ last.op = "add"
  /\ size = 3
  /\ count >= 2
  /\ htable_find(Mem, last.key, Len(last.key)) = last.ent

(* C2: after any sequence of inserts of unlinked entries and deletions by  *)
(* key or by entry, count equals the number of entries a full traversal of *)
(* all bucket chains yields.                                               *)
C2_CountInvariant == count = Len(htable_for_each(Mem))

(* a successful deletion that leaves other entries linked *)
C2_Witness ==
  /\ last.op \in {"del_key", "del_entry"}
  /\ last.ret # NULL
  /\ count = 2

(* C3: the bloom test of every linked entry's key hash is true; so a false *)
(* bloom test for a key means no linked entry has that key.                *)
C3_BloomNoFalseNegative ==
  /\ \A e \in Entries :
       ~hlist_unhashed(Mem, e) =>
         bloom_test(bitvect, jhash(e_key[e], e_len[e], 0)) # 0
  /\ \A k \in Keys :
       bloom_test(bitvect, jhash(k, Len(k), 0)) = 0 => LinkedWithKey(k) = {}

(* entries are linked while the filter still rejects another key *)
C3_Witness ==
  /\ count >= 2
  /\ \E k \in Keys : bloom_test(bitvect, jhash(k, Len(k), 0)) = 0

(* C4: when several linked entries share a key, htable_find returns the    *)
(* one inserted last among those still linked, after any inserts and       *)
(* deletes.                                                                *)
C4_FindNewestDuplicate ==
  \A k \in Keys :
    Cardinality(LinkedWithKey(k)) >= 2 =>
      htable_find(Mem, k, Len(k)) = Newest(k)

(* a deletion took the newest of three duplicates; two remain linked *)
C4_Witness ==
  /\ last.op = "del_key"
  /\ last.ret # NULL
  /\ Cardinality(LinkedWithKey(last.key)) >= 2
  /\ htable_find(Mem, last.key, Len(last.key)) = Newest(last.key)

(* C5: after a successful htable_del_key(table, k), htable_find(table, k)  *)
(* is not-found if no other linked entry has key k and otherwise another,  *)
(* still linked entry with key k; it is never the removed entry, although  *)
(* the bloom bit of k's hash is still set.                                 *)
C5_DeleteRemovesMembership ==
  (last.op = "del_key" /\ last.ret # NULL) =>
    LET r == htable_find(Mem, last.key, Len(last.key))
    IN  /\ r # last.ret
        /\ hlist_unhashed(Mem, last.ret)
        /\ IF LinkedWithKey(last.key) = {} THEN r = NULL
           ELSE r \in LinkedWithKey(last.key)
        /\ bloom_test(bitvect, jhash(last.key, Len(last.key), 0)) # 0

(* the only entry with the key was deleted while other entries stay linked *)
C5_Witness ==
  /\ last.op = "del_key"
  /\ last.ret # NULL
  /\ htable_find(Mem, last.key, Len(last.key)) = NULL
  /\ count >= 1

(* C6: no step clears a bit of the bloom vector, and the step that calls   *)
(* htable_add with a key of hash h leaves bloom_test(h) true; so the test  *)
(* stays true ever after, also when every entry of that hash is deleted.   *)
C6_BloomMonotone ==
  [][/\ \/ bitvect' = bitvect
        \/ /\ \A b \in DOMAIN bitvect :
                BitAnd(bitvect[b], bitvect'[b]) = bitvect[b]
           /\ \A h \in HashVals :
                bloom_test(bitvect, h) # 0 => bloom_test(bitvect', h) # 0
     /\ (last'.op = "add" =>
          bloom_test(bitvect', jhash(last'.key, Len(last'.key), 0)) # 0)]_vars

(* the table was emptied by a deletion and the deleted key's bit is set *)
C6_Witness ==
  /\ last.op \in {"del_key", "del_entry"}
  /\ last.ret # NULL
  /\ count = 0
  /\ Linked = {}
  /\ bloom_test(bitvect, jhash(last.key, Len(last.key), 0)) # 0

(* C7: a finished htable_for_each over a table that was not modified has   *)
(* yielded exactly as many items as entries are linked, each linked entry  *)
(* exactly once, for every bucket count and key distribution.              *)
C7_IterationComplete ==
  (pc = "done" /\ it_kind = "plain") =>
    /\ Len(visited) = Cardinality(Linked)
    /\ Len(visited) = count
    /\ SeqSet(visited) = Linked
    /\ NoRepeat(visited)
    /\ it_start = Linked

(* a finished plain traversal of ten buckets that met duplicate keys and   *)
(* a chain holding different keys                                          *)
C7_Witness ==
  /\ pc = "done"
  /\ it_kind = "plain"
  /\ size = 10
  /\ Len(visited) >= 3
  /\ \E k \in Keys : Cardinality(LinkedWithKey(k)) >= 2
  /\ \E e \in Linked : e_key[e] # e_key[bucks[1]] /\ node_pprev[e] # HeadRef(1)
                       /\ node_pprev[e][1] = "node"

(* C8: an htable_for_each_safe whose every body deletes the current entry  *)
(* with htable_del_entry visits only entries linked at its start and none  *)
(* twice, so it ends after at most that many bodies; when it has ended,    *)
(* count = 0, every bucket is empty and each entry linked at its start has *)
(* been visited exactly once.                                              *)
C8_SafeDeleteAll ==
  (it_kind = "safe" /\ it_all) =>
    /\ NoRepeat(visited)
    /\ SeqSet(visited) \subseteq it_start
    /\ pc = "body" => (it_pos \in it_start /\ it_pos \notin SeqSet(visited))
    /\ pc = "done" =>
         /\ count = 0
         /\ \A i \in 0..(size - 1) : bucks[i] = NULL
         /\ Linked = {}
         /\ SeqSet(visited) = it_start
         /\ Len(visited) = Cardinality(it_start)

(* a finished deleting traversal over three entries, two with one key *)
C8_Witness ==
  /\ pc = "done"
  /\ it_kind = "safe"
  /\ it_all
  /\ Len(visited) >= 3
  /\ \E a, b \in SeqSet(visited) : a # b /\ e_key[a] = e_key[b]
  /\ count = 0

(* C9: a deletion, by key or by entry, of a key no linked entry has        *)
(* returns not-found and changes neither count nor any chain nor the bloom *)
(* vector nor any entry.                                                   *)
C9_DeleteAbsentNoChange ==
  [][(/\ last'.op \in {"del_key", "del_entry"}
      /\ pc' = "idle"
      /\ LinkedWithKey(last'.key) = {})
     => (last'.ret = NULL /\ UNCHANGED tvars)]_vars

(* an unlinked entry was handed to htable_del_entry while the table holds  *)
(* entries and the bloom bit of its key is set                             *)
C9_Witness ==
  /\ last.op = "del_entry"
  /\ last.ret = NULL
  /\ hlist_unhashed(Mem, last.ent)
  /\ count >= 1
  /\ bloom_test(bitvect, jhash(last.key, Len(last.key), 0)) # 0

(* C10: htable_del_entry(table, e) returns and does what                   *)
(* htable_del_key(table, e.key, e.len) returns and does: it removes the    *)
(* entry inserted last among the linked entries with e's key, which is not *)
(* e whenever a newer duplicate of e's key is linked.                      *)
C10_DelEntryIsDelKey ==
  [][(last'.op = "del_entry" /\ pc' = "idle") =>
       LET e == last'.ent
           r == htable_del_key(Mem, e_key[e], e_len[e])
       IN  /\ last'.ret = r.ret
           /\ tvars' = <<r.mem.size, r.mem.bucks, r.mem.count, r.mem.bitvect,
                         r.mem.next, r.mem.pprev, r.mem.key, r.mem.len,
                         r.mem.hash>>
           /\ last'.ret = Newest(e_key[e])
           /\ (Newest(e_key[e]) # e /\ ~hlist_unhashed(Mem, e) =>
                 /\ last'.ret # e
                 /\ ~hlist_unhashed(r.mem, e))]_vars

(* htable_del_entry(e) removed another entry than e and left e linked *)
C10_Witness ==
  /\ last.op = "del_entry"
  /\ last.ret # NULL
  /\ last.ret # last.ent
  /\ ~hlist_unhashed(Mem, last.ent)
  /\ hlist_unhashed(Mem, last.ret)

(* ------------------------------------------- misuse: linked entry re-added *)
(* entries some chain reaches, and the pointers of heads and of reachable  *)
(* nodes that lead to entry e                                              *)
Reachable == UNION {SeqSet(Chain(i)) : i \in 0..(size - 1)}

InRefs(e) ==
  {HeadRef(i) : i \in {j \in 0..(size - 1) : bucks[j] = e}}
    \cup {NodeRef(x) : x \in {y \in Reachable : node_next[y] = e}}

HasCycle == \E i \in 0..(size - 1) : ~NoRepeat(Chain(i))

(* what the header's functions rely on: every linked node is pointed to    *)
(* by exactly the place its pprev names, nothing points to an unlinked     *)
(* node, the chains end, and count is the number of linked nodes           *)
WellFormed ==
  /\ ~HasCycle
  /\ Reachable = Linked
  /\ \A e \in Entries :
       InRefs(e) = (IF hlist_unhashed(Mem, e) THEN {} ELSE {node_pprev[e]})
  /\ count = Cardinality(Linked)

(* htable_add of an entry that is still linked, which the header does not  *)
(* forbid in code. From the state it leaves, a chain walk need not end, so *)
(* the runs stop there                                                     *)
Reinsert(e, k) ==
  /\ Ready
  /\ WellFormed
  /\ ~hlist_unhashed(Mem, e)
  /\ Commit(htable_add(Mem, e, k, Len(k)))
  /\ order' = Append(Remove(order, e), e)
  /\ last' = Call("readd", e, k, NULL)
  /\ IterReset
  /\ UNCHANGED jhash_tab

NextReinsert ==
  \/ \E e \in Entries, k \in AddKeys : WellFormed /\ Insert(e, k)
  \/ \E e \in Entries : WellFormed /\ DelEntry(e)
  \/ \E e \in Entries, k \in AddKeys : Reinsert(e, k)

SpecReinsert == Init /\ [][NextReinsert]_vars

(* C11: either traversal macro is finite and restartable: a body that has  *)
(* been entered is followed by the end of the traversal, which comes after *)
(* the last bucket and after no more bodies than entries were linked at    *)
(* the start; a traversal begins at bucket 0, whatever traversal ran       *)
(* before, and on a table that was not changed it yields the sequence that *)
(* the table alone determines.                                             *)
C11_FiniteRestartable ==
  /\ [](pc \in {"body", "done"} =>
          /\ NoRepeat(visited)
          /\ SeqSet(visited) \subseteq it_start
          /\ (visited = <<>> => \A j \in 0..(it_i - 1) : j < size => bucks[j] = NULL)
          /\ (pc = "body" /\ visited = <<>> /\ Linked = it_start =>
                it_pos = htable_for_each(Mem)[1])
          /\ (pc = "done" =>
                /\ it_i = size
                /\ it_pos = NULL
                /\ (Linked = it_start =>
                      visited = htable_for_each(Mem) /\ SeqSet(visited) = Linked)))
  /\ ((pc = "body") ~> (pc = "done"))

(* a removal-safe traversal that deleted nothing has ended on a table of   *)
(* three entries whose bucket 0 is in use                                  *)
C11_Witness ==
  /\ pc = "done"
  /\ it_kind = "safe"
  /\ Linked = it_start
  /\ Len(visited) >= 3
  /\ bucks[0] # NULL
  /\ visited = htable_for_each(Mem)

(* C12: after htable_add(table, entry, key, len) the entry's hash field    *)
(* equals jhash(key, len, 0), the value htable_add used for the bucket and *)
(* the bloom bit.                                                          *)
C12_HashCached ==
  last.op = "add" => e_hash[last.ent] = jhash(last.key, Len(last.key), 0)

(* C13: in every state reached by inserts of unlinked entries and deletes, *)
(* an entry is either unlinked and in no chain, or occurs exactly once in  *)
(* the chain of the bucket jhash(key) & (size - 1) and in no other chain.  *)
C13_Placement ==
  \A e \in Entries :
    IF hlist_unhashed(Mem, e)
    THEN \A i \in 0..(size - 1) : Occurs(e, i) = 0
    ELSE LET b == BitAnd(jhash(e_key[e], e_len[e], 0), size - 1)
         IN  \A i \in 0..(size - 1) : Occurs(e, i) = (IF i = b THEN 1 ELSE 0)

(* ten buckets: two keys of different hash share bucket 1, next to an      *)
(* entry that a deletion unlinked                                          *)
C13_Witness ==
  /\ size = 10
  /\ Len(Chain(1)) >= 2
  /\ \E a, b \in SeqSet(Chain(1)) : e_key[a] # e_key[b]
  /\ last.op = "del_key"
  /\ last.ret # NULL
  /\ \A i \in 0..(size - 1) : Occurs(last.ret, i) = 0

(* C14: htable_add does not reject an entry that is already linked: it     *)
(* makes it the head of the key's bucket and counts it again. The state it *)
(* leaves is not well formed: a chain runs in a cycle or an entry is       *)
(* pointed to from two places, and count equals neither the number of      *)
(* entries the chains reach nor the number of linked nodes.                *)
C14_ReinsertCorrupts ==
  last.op = "readd" =>
    /\ bucks[BitAnd(jhash(last.key, Len(last.key), 0), size - 1)] = last.ent
    /\ e_key[last.ent] = last.key
    /\ (HasCycle \/ \E e \in Entries : Cardinality(InRefs(e)) >= 2)
    /\ count # Cardinality(Reachable)
    /\ count # Cardinality(Linked)
    /\ ~WellFormed

(* the second entry of a chain of three was added again under its own key: *)
(* the chain now runs in a cycle and the third entry is cut off            *)
C14_Witness ==
  /\ last.op = "readd"
  /\ HasCycle
  /\ count = 4
  /\ Cardinality(Reachable) = 2

(* C15: htable_init_n takes the hint as the bucket count without rounding  *)
(* (10 for a hint of 0). When that count is no power of two, the index     *)
(* hash & (size - 1) differs from hash mod size for some hash, and some    *)
(* index in 0..size-1 is selected by no hash, so its bucket stays empty.   *)
C15_MisAddressing ==
  /\ size \in {HASH_NUM_BUCKETS} \cup
              {(IF n > 0 THEN n ELSE HASH_BUCKET_THRESH) : n \in InitHints}
  /\ ~IsPowerOfTwo(size) =>
       /\ \E h \in ProbeHashes \cup HashVals :
            htable_which_bucket(Mem, h) # h % size
       /\ \E i \in 0..(size - 1) :
            /\ \A h \in ProbeHashes \cup HashVals : htable_which_bucket(Mem, h) # i
            /\ bucks[i] = NULL
            /\ \A e \in Linked : node_pprev[e] # HeadRef(i)

(* ten buckets: an entry of hash 3 is linked in bucket 1, not in bucket 3 *)
C15_Witness ==
  /\ size = 10
  /\ \E e \in Linked :
       /\ jhash(e_key[e], e_len[e], 0) = 3
       /\ node_pprev[e] = HeadRef(1)
       /\ bucks[3] = NULL

(* C16: a traversal visits the buckets by increasing index and, within a   *)
(* bucket, the entries still linked there with the latest insert first;    *)
(* a deletion leaves the order of the other entries as it was. So the      *)
(* sequence a full traversal yields is, in every state, the one built from *)
(* the history of inserts and deletes, and a finished traversal that       *)
(* changed nothing has yielded it.                                         *)
C16_TraversalOrder ==
  /\ htable_for_each(Mem) = OrderFrom(0)
  /\ (pc = "done" /\ Linked = it_start) => visited = OrderFrom(0)

(* a finished plain traversal over two buckets, after a deletion, that met *)
(* the later insert first because it sits in the lower bucket              *)
C16_Witness ==
  /\ pc = "done"
  /\ it_kind = "plain"
  /\ Len(visited) = 2
  /\ BucketOf(visited[1]) < BucketOf(visited[2])
  /\ order = <<visited[2], visited[1]>>
  /\ \E e \in Entries : hlist_unhashed(Mem, e) /\ e_key[e] # NoKey

(* C17: a successful htable_del_key removes exactly the entry htable_find  *)
(* returns for the key: it returns that entry with its node reset, so that *)
(* it may be added again, decrements count by one, takes the entry out of  *)
(* its chain and leaves every chain otherwise as it was, and changes       *)
(* neither the bloom vector nor the size nor any key.                      *)
C17_DeleteFrame ==
  [][(/\ last'.op = "del_key"
      /\ pc' = "idle"
      /\ htable_find(Mem, last'.key, Len(last'.key)) # NULL)
     => LET f == htable_find(Mem, last'.key, Len(last'.key))
        IN  /\ last'.ret = f
            /\ count' = count - 1
            /\ node_pprev'[f] = NullRef
            /\ node_next'[f] = NULL
            /\ Linked' = Linked \ {f}
            /\ \A i \in 0..(size - 1) : Chain(i)' = Remove(Chain(i), f)
            /\ \A e \in Entries \ {f} :
                 node_pprev'[e] = NullRef <=> node_pprev[e] = NullRef
            /\ bitvect' = bitvect
            /\ size' = size
            /\ e_key' = e_key
            /\ e_len' = e_len
            /\ e_hash' = e_hash]_vars

(* a deletion by key took an entry from behind the head of its chain; the  *)
(* two entries left there kept their order                                 *)
C17_Witness ==
  /\ last.op = "del_key"
  /\ last.ret # NULL
  /\ hlist_unhashed(Mem, last.ret)
  /\ count = 2
  /\ \E i \in 0..(size - 1) :
       /\ Len(Chain(i)) = 2
       /\ order = <<Chain(i)[2], Chain(i)[1]>>
       /\ e_key[Chain(i)[1]] # last.key
       /\ BucketOf(last.ret) = i

C19_BloomGateTransparent ==
  /\ [](\A k \in Keys : htable_find(Mem, k, Len(k)) = RefLookup(k))
  /\ [][last'.op = "find" =>
          /\ last'.ret = RefLookup(last'.key)
          /\ UNCHANGED tvars
          /\ UNCHANGED order]_vars

(* htable_find was turned down by the bloom test although the key's bucket *)
(* holds entries                                                           *)
C19_Witness ==
  /\ last.op = "find"
  /\ last.ret = NULL
  /\ bloom_test(bitvect, jhash(last.key, Len(last.key), 0)) = 0
  /\ bucks[BitAnd(jhash(last.key, Len(last.key), 0), size - 1)] # NULL

(* C20: in a removal-safe traversal whose bodies call htable_del_entry on  *)
(* some of the visited entries only, such a call always unlinks an entry:  *)
(* the current one or one visited before it, of the same key and bucket,   *)
(* never the captured next entry nor any entry not yet visited. So the     *)
(* entries not yet visited stay linked, no entry is visited twice, and at  *)
(* the end every entry linked at the start has been visited exactly once.  *)
C20_PartialDeleteSafe ==
  (it_kind = "safe" /\ pc \in {"body", "done"}) =>
    /\ NoRepeat(visited)
    /\ SeqSet(visited) \subseteq it_start
    /\ (it_start \ SeqSet(visited)) \subseteq Linked
    /\ (pc = "body" => it_pos \in it_start \ SeqSet(visited))
    /\ (pc = "done" => SeqSet(visited) = it_start)
    /\ (last.op = "body_del" =>
          /\ last.ent = visited[Len(visited)]
          /\ last.ret # NULL
          /\ last.ret \in SeqSet(visited)
          /\ hlist_unhashed(Mem, last.ret)
          /\ e_key[last.ret] = e_key[last.ent]
          /\ BucketOf(last.ret) = BucketOf(last.ent)
          /\ last.ret # it_pos
          /\ last.ret \notin it_start \ SeqSet(visited))

(* a finished traversal of three entries kept the first of two duplicates  *)
(* and, asked to delete the second, unlinked the first: the second is      *)
(* still linked                                                            *)
C20_Witness ==
  /\ pc = "done"
  /\ it_kind = "safe"
  /\ Len(visited) = 3
  /\ SeqSet(visited) = it_start
  /\ last.op = "body_del"
  /\ last.ret # last.ent
  /\ ~hlist_unhashed(Mem, last.ent)
  /\ hlist_unhashed(Mem, last.ret)
====
